---- MODULE Spec2Model ----
(***************************************************************************)
(* A model of SignalBackup::dumpMedia (src/signalbackup/dumpmedia.cc).     *)
(*                                                                         *)
(* Strings are sequences of string tokens (a token is a word, a separator  *)
(* or a decimal number), so concatenation is \o and a search in a string   *)
(* is a search in a sequence.  The database is a list of joined rows per   *)
(* attachment; a row lists the columns that are NULL in its field nulls.   *)
(***************************************************************************)
EXTENDS Integers, Sequences, FiniteSets, TLC

VARIABLES
    d_database,     \* the relational store: schema flags and the joined rows
    d_attachments,  \* the attachment frames, in enumeration order
    daterangelist,  \* argument: date strings, consecutive (start, end) pairs
    threads,        \* argument: the thread allow-list
    rootOk,         \* whether prepareOutputDirectory(dir, overwrite) succeeds
    faults,         \* faults[i]: the file operation that fails for attachment i
    pc,             \* "start", "loop" or "done"
    count,          \* number of attachments the loop has taken
    ret,            \* the returned value: "none" until the return, then "true" or "false"
    conversations,  \* [first: thread ids, second: directory names]
    fs,             \* the file system below dir: [dirs, files]
    usedNames,      \* paths claimed by makeFilenameUnique in this run
    cleared,        \* cleared[i]: clearData() was called on attachment i
    log,            \* the error and warning messages logged
    cur,            \* the locals of the loop body after its last iteration
    unfailed,       \* the same run with no failing file operation, in step
    undated         \* the same run with an empty daterangelist, in step

vars == << d_database, d_attachments, daterangelist, threads, rootOk, faults, pc,
           count, ret, conversations, fs, usedNames, cleared, log, cur,
           unfailed, undated >>

----------------------------------------------------------------------------
(* Bounds of the model *)

MaxAttach == 3      \* attachments in d_attachments
MaxPairs == 2       \* (start, end) pairs in daterangelist

----------------------------------------------------------------------------
(* Strings *)

Range(s) == { s[i] : i \in 1..Len(s) }

NumStr == << "0", "1", "2", "3", "4", "5", "6", "7", "8", "9", "10", "11", "12" >>

\* bepaald::toString on a small non-negative number: its decimal token
toString(n) == NumStr[n + 1]

IsNumber(s) == \E n \in 1..Len(NumStr) : NumStr[n] = s

\* bepaald::toNumber<int> on a decimal token
toNumber(s) == (CHOOSE n \in 1..Len(NumStr) : NumStr[n] = s) - 1

\* sanitizeFilename: drops the characters that are illegal in a file name
sanitizeFilename(s) == SelectSeq(s, LAMBDA t : t # "/")

\* MimeTypes::getExtension: the extension of a known mime type, else empty
getExtension(mime) ==
    CASE mime = "image/png"  -> <<"png">>
      [] mime = "image/jpeg" -> <<"jpg">>
      [] OTHER               -> <<>>

\* Types::isOutgoing on the message-type flag: by its base type
isOutgoing(msg_box) == (msg_box % 32) \in {2, 11, 21, 22, 23, 24, 25, 26}

----------------------------------------------------------------------------
(* Dates.  A date string is "garbage", a date-time "dt<secs>" with second  *)
(* resolution, or a number of milliseconds "ms<msecs>".                    *)

DateMs == [ garbage |-> -1, dt1 |-> 1000, ms1500 |-> 1500 ]

DateStrings == { "garbage", "dt1", "ms1500" }

\* dateToMSecsSinceEpoch(date, &needrounding): -1 when the string does not
\* parse; a "YYYY-MM-DD HH:MM:SS" string sets the rounding flag.
dateToMSecsSinceEpoch(date) ==
    [ ms |-> DateMs[date], needrounding |-> date = "dt1" ]

----------------------------------------------------------------------------
(* The lookup statement.  Its WHERE clause after the two key tests is a    *)
(* sequence of tokens [tok, lo, hi]; lo and hi carry the numbers of a      *)
(* thread id (lo) or of a BETWEEN term.                                    *)

Tok(t) == [ tok |-> t, lo |-> 0, hi |-> 0 ]

IsNull(row, col) == col \in row.nulls

\* lines 61-80: the projection and the tables it selects from or joins
Projection(db) ==
    IF db.full
    THEN [ select |-> "full",
           from   |-> {"part", "mms", "thread", "recipient", "groups"} ]
    ELSE [ select |-> "minimal", from |-> {"part"} ]

\* lines 85-86: each id, then "," or, after the last one, ")"
RECURSIVE ThreadIdList(_, _)
ThreadIdList(ths, i) ==
    IF i > Len(ths) THEN <<>>
    ELSE << [ tok |-> "id", lo |-> ths[i], hi |-> 0 ],
            Tok(IF i = Len(ths) THEN ")" ELSE ",") >>
         \o ThreadIdList(ths, i + 1)

\* lines 82-87: " AND thread._id IN (" id "," id ")"
ThreadClause(ths) ==
    IF ths = <<>> THEN <<>>
    ELSE << Tok(" AND thread._id IN (") >> \o ThreadIdList(ths, 1)

\* lines 92-95: the pairs, none when the list has odd length
DateRanges(drl) ==
    IF Len(drl) % 2 = 0
    THEN [ i \in 1..(Len(drl) \div 2) |-> << drl[2 * i - 1], drl[2 * i] >> ]
    ELSE <<>>

\* a test that compares the start with the rounded end
RangeSkippedRounded(pair) ==
    LET startrange == dateToMSecsSinceEpoch(pair[1]).ms
        e          == dateToMSecsSinceEpoch(pair[2])
    IN  \/ startrange = -1 \/ e.ms = -1
        \/ (IF e.needrounding THEN e.ms + 999 ELSE e.ms) < startrange

\* lines 102-104: the test that drops a pair
RangeSkipped(pair) ==
    LET startrange == dateToMSecsSinceEpoch(pair[1]).ms
        endrange   == dateToMSecsSinceEpoch(pair[2]).ms
    IN  startrange = -1 \/ endrange = -1 \/ endrange < startrange

\* lines 114-118: the bounds written into the clause
RangeTerm(pair) ==
    LET startrange == dateToMSecsSinceEpoch(pair[1]).ms
        e          == dateToMSecsSinceEpoch(pair[2])
        endrange   == IF e.needrounding THEN e.ms + 999 ELSE e.ms
    IN  [ tok |-> "date_received BETWEEN", lo |-> startrange, hi |-> endrange ]

\* lines 97-123: datewhereclause
RECURSIVE DateWhereFrom(_, _, _)
DateWhereFrom(dateranges, i, datewhereclause) ==
    IF i > Len(dateranges) THEN datewhereclause
    ELSE IF RangeSkipped(dateranges[i])
         THEN DateWhereFrom(dateranges, i + 1, datewhereclause)
         ELSE DateWhereFrom(dateranges, i + 1,
                  datewhereclause
                  \o << Tok(IF datewhereclause = <<>> THEN " AND (" ELSE " OR "),
                        RangeTerm(dateranges[i]) >>
                  \o (IF i = Len(dateranges) THEN << Tok(")") >> ELSE <<>>))

DateWhereClause(drl) ==
    IF drl = <<>> THEN <<>> ELSE DateWhereFrom(DateRanges(drl), 1, <<>>)

\* lines 106-107: the pairs of the list that are logged as skipped
SkippedRanges(drl) ==
    { i \in 1..Len(DateRanges(drl)) : RangeSkipped(DateRanges(drl)[i]) }

\* lines 61-126: the statement
BuildQuery(db, ths, drl) ==
    [ select |-> Projection(db).select,
      from   |-> Projection(db).from,
      where  |-> ThreadClause(ths) \o DateWhereClause(drl) ]

----------------------------------------------------------------------------
(* SqliteDB::exec on the statement *)

Count(s, t) == Cardinality({ i \in 1..Len(s) : s[i].tok = t })

Opens(w)  == Count(w, " AND thread._id IN (") + Count(w, " AND (")
Closes(w) == Count(w, ")")

\* the tables a filter of the clause names
FilterTables(w) ==
    (IF Count(w, " AND thread._id IN (") > 0 THEN {"thread"} ELSE {})
    \cup (IF Count(w, "date_received BETWEEN") > 0 THEN {"mms"} ELSE {})

\* the statement prepares: parentheses closed, every table named is there
Prepares(q) == Opens(q.where) = Closes(q.where) /\ FilterTables(q.where) \subseteq q.from

ThreadIds(w) == { w[i].lo : i \in { j \in 1..Len(w) : w[j].tok = "id" } }
DateTerms(w) == { w[i] : i \in { j \in 1..Len(w) : w[j].tok = "date_received BETWEEN" } }

\* the WHERE clause on one joined row; a comparison with NULL is not true
Admits(q, row) ==
    /\ Count(q.where, " AND thread._id IN (") > 0
          => ~IsNull(row, "thread._id") /\ row.thread_id \in ThreadIds(q.where)
    /\ Count(q.where, " AND (") > 0
          => /\ ~IsNull(row, "date_received")
             /\ \E t \in DateTerms(q.where) :
                    t.lo <= row.date_received /\ row.date_received <= t.hi

\* exec(query, {rowId, attachmentId}, &results): the rows of the attachment
\* that pass the clause
ExecResults(q, rows) == SelectSeq(rows, LAMBDA r : Admits(q, r))

----------------------------------------------------------------------------
(* File names and paths *)

dir == << "root" >>

Msg(att, kind, arg) == [ att |-> att, msg |-> kind, arg |-> arg ]

\* a timestamp that is always the attachment's own id
DatumOfAttachment(db, a, row) == a.attachmentId

\* lines 146-149: the effective timestamp
Datum(db, a, row) ==
    IF db.full /\ ~IsNull(row, "date_received") THEN row.date_received
    ELSE a.attachmentId

\* lines 158-173: "signal-%Y-%m-%d-%H%M%S" of datum / 1000, the display
\* order when it is not 0, and the extension of the mime type
FallbackName(datum, order, ct) ==
    LET ext == IF getExtension(ct) = <<>> THEN << "attach" >> ELSE getExtension(ct)
    IN  << "signal-", toString(datum \div 1000) >>
        \o (IF order # 0 THEN << "_", toString(order) >> ELSE <<>>)
        \o << "." >> \o ext

\* lines 152-174: the candidate file name
CandidateName(db, a, row) ==
    LET filename == IF ~IsNull(row, "file_name") THEN sanitizeFilename(row.file_name)
                    ELSE <<>>
    IN  IF filename = <<>>
        THEN FallbackName(Datum(db, a, row), row.display_order, row.ct)
        ELSE filename

\* std::filesystem::path::stem and extension: split at the last dot, unless
\* the name has none or starts with it
LastDot(f) ==
    LET dots == { i \in 1..Len(f) : f[i] = "." }
    IN  IF dots = {} THEN 0 ELSE CHOOSE i \in dots : \A j \in dots : j <= i

Stem(f) == IF LastDot(f) <= 1 THEN f ELSE SubSeq(f, 1, LastDot(f) - 1)
Ext(f)  == IF LastDot(f) <= 1 THEN <<>> ELSE SubSeq(f, LastDot(f), Len(f))

\* the stem ends in a group " (N)"
HasGroup(st) ==
    /\ Len(st) >= 3
    /\ st[Len(st) - 2] = " (" /\ IsNumber(st[Len(st) - 1]) /\ st[Len(st)] = ")"

StripGroup(st) == IF HasGroup(st) THEN SubSeq(st, 1, Len(st) - 3) ELSE st

\* a next name that appends " (2)" to the stem as it is
NextCandidateAppended(f) == Stem(f) \o << " (", "2", ")" >> \o Ext(f)

\* the next name to try: counter N+1 after a group " (N)", else 2
NextCandidate(f) ==
    LET st      == Stem(f)
        counter == IF HasGroup(st) THEN toNumber(st[Len(st) - 1]) + 1 ELSE 2
    IN  StripGroup(st) \o << " (", toString(counter), ")" >> \o Ext(f)

FilePaths(files) == { x.path : x \in files }

\* bepaald::fileOrDirExists
fileOrDirExists(fsys, path) == path \in fsys.dirs \/ path \in FilePaths(fsys.files)

\* the name is on disk or was claimed earlier in the run
Taken(fsys, used, path) == fileOrDirExists(fsys, path) \/ path \in used

\* makeFilenameUnique(targetdir, &filename): the first free name
RECURSIVE makeFilenameUnique(_, _, _, _)
makeFilenameUnique(fsys, used, targetdir, filename) ==
    IF Taken(fsys, used, targetdir \o << "/" >> \o filename)
    THEN makeFilenameUnique(fsys, used, targetdir, NextCandidate(filename))
    ELSE filename

----------------------------------------------------------------------------
(* The conversation registry, lines 186-206 *)

\* bepaald::findIdxOf: the 0-based index of the first match, -1 if none
findIdxOf(s, v) ==
    LET hits == { i \in 1..Len(s) : s[i] = v }
    IN  IF hits = {} THEN -1 ELSE (CHOOSE i \in hits : \A j \in hits : i <= j) - 1

\* a marker appended whether or not the name is owned
UniqueConversationNameTwice(names, chatpartner) == chatpartner \o << "(2)" >>

\* lines 199-201: append "(2)" until no entry owns the name
RECURSIVE UniqueConversationName(_, _)
UniqueConversationName(names, chatpartner) ==
    IF chatpartner \in Range(names)
    THEN UniqueConversationName(names, chatpartner \o << "(2)" >>)
    ELSE chatpartner

\* a registry that appends the marker once, without the loop of line 200
ResolveConversationOnce(conv, tid, chatpartner) ==
    IF findIdxOf(conv.first, tid) # -1
    THEN [ conv |-> conv, idx_of_thread |-> findIdxOf(conv.first, tid) ]
    ELSE [ conv |-> [ first  |-> Append(conv.first, tid),
                      second |-> Append(conv.second,
                                        IF chatpartner \notin Range(conv.second)
                                        THEN chatpartner
                                        ELSE chatpartner \o << "(2)" >>) ],
           idx_of_thread |-> Len(conv.second) ]

\* lines 186-206: the registry and idx_of_thread after the lookup
ResolveConversation(conv, tid, chatpartner) ==
    IF findIdxOf(conv.first, tid) # -1
    THEN [ conv |-> conv, idx_of_thread |-> findIdxOf(conv.first, tid) ]
    ELSE LET name == IF chatpartner \notin Range(conv.second) THEN chatpartner
                     ELSE UniqueConversationName(conv.second, chatpartner \o << "(2)" >>)
             added == [ first  |-> Append(conv.first, tid),
                        second |-> Append(conv.second, name) ]
         IN  [ conv |-> added, idx_of_thread |-> Len(added.second) - 1 ]

\* lines 178-179: the row sends the attachment to a conversation directory
HasConversation(db, row) ==
    /\ db.full
    /\ ~IsNull(row, "thread_id") /\ ~IsNull(row, "chatpartner") /\ ~IsNull(row, "type")

\* lines 182-184
ChatPartner(row) ==
    IF sanitizeFilename(row.chatpartner) = <<>>
    THEN << "Contact ", toString(row.thread_id) >>
    ELSE sanitizeFilename(row.chatpartner)

\* bepaald::createDir: fails on a fault or where a file has the name
createDir(fsys, path, fault) == ~fault /\ path \notin FilePaths(fsys.files)

\* lines 208-233: the two directories are made where they are missing;
\* failed is the path whose creation failed, empty when none did
MakeDirs(r, fsys, io, convdir, target) ==
    LET base == [ conv |-> r.conv, dirs |-> fsys.dirs, targetdir |-> dir,
                  failed |-> <<>>, idx_of_thread |-> r.idx_of_thread ]
    IN  IF convdir \notin fsys.dirs /\ ~createDir(fsys, convdir, io = "mkdir1")
        THEN [ base EXCEPT !.failed = convdir ]
        ELSE IF target \notin fsys.dirs /\ ~createDir(fsys, target, io = "mkdir2")
             THEN [ base EXCEPT !.dirs = @ \cup {convdir}, !.targetdir = target,
                                !.failed = target ]
             ELSE [ base EXCEPT !.dirs = @ \cup {convdir, target},
                                !.targetdir = target ]

\* the directories with "sent" and "received" the other way round
ConversationDirsSwapped(r, row, fsys, io) ==
    MakeDirs(r, fsys, io,
             dir \o << "/" >> \o r.conv.second[r.idx_of_thread + 1],
             dir \o << "/" >> \o r.conv.second[r.idx_of_thread + 1] \o << "/" >>
                 \o << IF isOutgoing(row.type) THEN "received" ELSE "sent" >>)

\* lines 209, 221: the conversation directory and the directory below it
ConversationDirs(r, row, fsys, io) ==
    MakeDirs(r, fsys, io,
             dir \o << "/" >> \o r.conv.second[r.idx_of_thread + 1],
             dir \o << "/" >> \o r.conv.second[r.idx_of_thread + 1] \o << "/" >>
                 \o << IF isOutgoing(row.type) THEN "sent" ELSE "received" >>)

\* a registry that drops the new entry when a directory cannot be made
TargetDirRollback(db, row, conv, fsys, io) ==
    IF ~HasConversation(db, row)
    THEN [ conv |-> conv, dirs |-> fsys.dirs, targetdir |-> dir, failed |-> <<>>,
           idx_of_thread |-> -1 ]
    ELSE IF io \in { "mkdir1", "mkdir2" }
    THEN [ ConversationDirs(ResolveConversation(conv, row.thread_id, ChatPartner(row)),
                            row, fsys, io) EXCEPT !.conv = conv ]
    ELSE ConversationDirs(ResolveConversation(conv, row.thread_id, ChatPartner(row)),
                          row, fsys, io)

\* lines 177-233: the registry, the directories and targetdir
TargetDir(db, row, conv, fsys, io) ==
    IF ~HasConversation(db, row)
    THEN [ conv |-> conv, dirs |-> fsys.dirs, targetdir |-> dir, failed |-> <<>>,
           idx_of_thread |-> -1 ]
    ELSE ConversationDirs(ResolveConversation(conv, row.thread_id, ChatPartner(row)),
                          row, fsys, io)

----------------------------------------------------------------------------
(* The loop body, lines 48-286.  io names the one operation of the file    *)
(* system that fails in the iteration, "none" when all succeed.            *)

IoFaults == { "none", "mkdir1", "mkdir2", "unique", "open", "write", "stamp" }

NoQuery == [ select |-> "none", from |-> {}, where |-> <<>> ]

NoLocals ==
    [ att |-> 0, query |-> NoQuery, rows |-> 0, results |-> 0, nulls |-> {},
      thread_id |-> 0, type |-> 0, datum |-> 0, candidate |-> <<>>,
      filename |-> <<>>,
      targetdir |-> <<>>, idx_of_thread |-> -1, stage |-> "none", ops |-> <<>> ]

\* the file an ofstream leaves at path: a file that was there is truncated,
\* and prev keeps the attachments whose file it replaces
NewFile(fsys, l, path, data, mtime) ==
    [ path |-> path, dir |-> l.targetdir, name |-> l.filename,
      candidate |-> l.candidate, att |-> l.att, data |-> data, mtime |-> mtime,
      prev |-> UNION { x.prev \cup { x.att } : x \in { y \in fsys.files : y.path = path } } ]

Others(fsys, path) == { x \in fsys.files : x.path # path }

\* a write that leaves the stream to be closed at the end of the scope,
\* after the timestamp is set: the close touches the modification time
WriteFileLateClose(fsys, l, path, io) ==
    [ files |-> Others(fsys, path) \cup { NewFile(fsys, l, path, TRUE, -1) },
      clear |-> TRUE, stage |-> "exported",
      ops |-> << "open", "write", "clearData", "setFileTimeStamp", "close" >> ]

\* lines 264-281: open, write, close, clearData, setFileTimeStamp, for the
\* locals l of the attachment
WriteFile(fsys, l, path, io) ==
    IF io = "open" \/ path \in fsys.dirs
    THEN [ files |-> fsys.files, clear |-> FALSE, stage |-> "open",
           ops |-> << "open failed" >> ]
    ELSE IF io = "write"
         THEN [ files |-> Others(fsys, path) \cup { NewFile(fsys, l, path, FALSE, -1) },
                clear |-> TRUE, stage |-> "write",
                ops |-> << "open", "write failed", "clearData" >> ]
         ELSE [ files |-> Others(fsys, path)
                    \cup { NewFile(fsys, l, path, TRUE,
                                   IF io = "stamp" THEN -1 ELSE l.datum) },
                clear |-> TRUE, stage |-> "exported",
                ops |-> << "open", "write", "close", "clearData",
                           IF io = "stamp" THEN "setFileTimeStamp failed"
                           ELSE "setFileTimeStamp" >> ]

\* the state and the locals an iteration starts from, the skipped ranges
\* logged (lines 106-107); st holds the registry, the file system and the
\* claimed names before the iteration, the date-range list, and the file
\* operation that fails in it
Begin(st, i, query) ==
    [ conversations |-> st.conversations, fs |-> st.fs, usedNames |-> st.usedNames,
      drl |-> st.drl, io |-> st.io,
      clear |-> FALSE, abort |-> FALSE,
      logs |-> { Msg(i, "Skipping range", k) : k \in SkippedRanges(st.drl) },
      cur |-> [ NoLocals EXCEPT !.att = i, !.query = query,
                                !.rows = Len(d_database.rows[i]) ] ]

\* lines 169, 266-277: the messages of the row's file
MimeWarning(i, row) ==
    IF (IsNull(row, "file_name") \/ sanitizeFilename(row.file_name) = <<>>)
       /\ getExtension(row.ct) = <<>>
    THEN { Msg(i, "mimetype not found", 0) } ELSE {}

WriteError(i, stage) ==
    CASE stage = "open"  -> { Msg(i, "Failed to open file for writing", 0) }
      [] stage = "write" -> { Msg(i, "Failed to write data to file", 0) }
      [] OTHER           -> {}

\* lines 264-281 on the unique name
Written(i, found, path, w) ==
    [ found EXCEPT !.usedNames = @ \cup { path },
                   !.fs.files = w.files,
                   !.clear = w.clear,
                   !.cur.stage = w.stage,
                   !.cur.ops = w.ops,
                   !.logs = @ \cup WriteError(i, w.stage) ]

WriteNamed(i, found, path) ==
    Written(i, found, path, WriteFile(found.fs, found.cur, path, found.io))

WriteUnique(i, found, filename) ==
    WriteNamed(i, [ found EXCEPT !.cur.filename = filename ],
               found.cur.targetdir \o << "/" >> \o filename)

\* an export that opens the candidate name as it is
ExportCandidate(i, found, failed, candidate) ==
    IF failed # <<>>
    THEN [ found EXCEPT !.cur.stage = "mkdir",
               !.logs = @ \cup { Msg(i, "Failed to create directory", 0) } ]
    ELSE IF found.io = "unique"
    THEN [ found EXCEPT !.cur.stage = "unique",
               !.logs = @ \cup { Msg(i, "getting unique filename", 0) } ]
    ELSE WriteUnique(i, found, candidate)

\* lines 208-240: the skips before the file is opened
Export(i, found, failed, candidate) ==
    IF failed # <<>>
    THEN [ found EXCEPT !.cur.stage = "mkdir",
               !.logs = @ \cup { Msg(i, "Failed to create directory", 0) } ]
    ELSE IF found.io = "unique"
    THEN [ found EXCEPT !.cur.stage = "unique",
               !.logs = @ \cup { Msg(i, "getting unique filename", 0) } ]
    ELSE WriteUnique(i, found,
                     makeFilenameUnique(found.fs, found.usedNames,
                                        found.cur.targetdir, candidate))

\* lines 145-233: the locals of the one row found
Found(i, same, row, t, datum, candidate) ==
    [ same EXCEPT !.conversations = t.conv, !.fs.dirs = t.dirs,
                  !.logs = @ \cup MimeWarning(i, row),
                  !.cur.results = 1, !.cur.nulls = row.nulls,
                  !.cur.thread_id = row.thread_id,
                  !.cur.type = row.type,
                  !.cur.datum = datum,
                  !.cur.candidate = candidate,
                  !.cur.targetdir = t.targetdir,
                  !.cur.idx_of_thread = t.idx_of_thread ]

OnTarget(i, same, row, t, candidate) ==
    Export(i, Found(i, same, row, t, Datum(d_database, d_attachments[i], row),
                    candidate),
           t.failed, candidate)

OnRow(i, same, row) ==
    OnTarget(i, same, row,
             TargetDir(d_database, row, same.conversations, same.fs, same.io),
             CandidateName(d_database, d_attachments[i], row))

\* a row count that ends the run instead of the iteration
OnResultsAbort(i, same, results) ==
    IF Len(results) # 1
    THEN [ same EXCEPT !.abort = TRUE, !.cur.results = Len(results),
                       !.cur.stage = "rows" ]
    ELSE OnRow(i, same, results[1])

\* lines 136-143: the row count
OnResults(i, same, results) ==
    IF Len(results) = 0 /\ (threads # <<>> \/ same.drl # <<>>)
    THEN [ same EXCEPT !.cur.stage = "deselected" ]
    ELSE IF Len(results) # 1
    THEN [ same EXCEPT !.cur.results = Len(results), !.cur.stage = "rows",
                       !.logs = @ \cup { Msg(i, "Unexpected number of results",
                                             Len(results)) } ]
    ELSE OnRow(i, same, results[1])

\* lines 131-132: exec
OnQuery(i, query, same) ==
    IF ~Prepares(query)
    THEN [ same EXCEPT !.abort = TRUE, !.cur.stage = "exec" ]
    ELSE OnResults(i, same, ExecResults(query, d_database.rows[i]))

OnStatement(st, i, query) == OnQuery(i, query, Begin(st, i, query))

\* one iteration for attachment i from the state st: the new registry, file
\* system, claimed names, clearData flag, messages, locals, and whether the
\* run is aborted
LoopBodyOn(st, i) == OnStatement(st, i, BuildQuery(d_database, threads, st.drl))

\* the state of the run before the iteration for attachment i
Here(i) ==
    [ conversations |-> conversations, fs |-> fs, usedNames |-> usedNames,
      drl |-> daterangelist, io |-> faults[i] ]

LoopBody(i) == LoopBodyOn(Here(i), i)

\* the runs kept in step: what a run has after an iteration
Kept(r) ==
    [ conversations |-> r.conversations, fs |-> r.fs, usedNames |-> r.usedNames,
      cur |-> r.cur, abort |-> r.abort ]

NoRun ==
    [ conversations |-> [ first |-> <<>>, second |-> <<>> ],
      fs |-> [ dirs |-> {}, files |-> {} ], usedNames |-> {},
      cur |-> NoLocals, abort |-> FALSE ]

\* the iteration for attachment i in the run ref, under the date-range list
\* drl and with the failing operation io
InStep(ref, i, drl, io) ==
    Kept(LoopBodyOn([ conversations |-> ref.conversations, fs |-> ref.fs,
                      usedNames |-> ref.usedNames, drl |-> drl, io |-> io ], i))

----------------------------------------------------------------------------
(* Actions *)

\* lines 27-31: the part table or its display_order column is missing
SchemaCheckFails ==
    /\ pc = "start"
    /\ ~d_database.part
    /\ pc' = "done" /\ ret' = "false"
    /\ log' = log \cup { Msg(0, "Database too badly damaged or too old", 0) }
    /\ UNCHANGED << d_database, d_attachments, daterangelist, threads, rootOk,
                    faults, count, conversations, fs, usedNames, cleared, cur,
                    unfailed, undated >>

\* lines 33-35: prepareOutputDirectory fails
PrepareFails ==
    /\ pc = "start"
    /\ d_database.part /\ ~rootOk
    /\ pc' = "done" /\ ret' = "false"
    /\ UNCHANGED << d_database, d_attachments, daterangelist, threads, rootOk,
                    faults, count, conversations, fs, usedNames, cleared, log, cur,
                    unfailed, undated >>

\* lines 27-40: both checks pass; dir exists and the registry is empty
Setup ==
    /\ pc = "start"
    /\ d_database.part /\ rootOk
    /\ pc' = "loop"
    /\ fs' = [ fs EXCEPT !.dirs = @ \cup { dir } ]
    /\ conversations' = [ first |-> <<>>, second |-> <<>> ]
    /\ unfailed' = [ NoRun EXCEPT !.fs = fs' ]
    /\ undated' = [ NoRun EXCEPT !.fs = fs' ]
    /\ UNCHANGED << d_database, d_attachments, daterangelist, threads, rootOk,
                    faults, count, ret, usedNames, cleared, log, cur >>

\* the assignments of one iteration
Iterate(r) ==
    /\ count' = count + 1
    /\ conversations' = r.conversations
    /\ fs' = r.fs
    /\ usedNames' = r.usedNames
    /\ cleared' = [ cleared EXCEPT ![count + 1] = r.clear ]
    /\ log' = log \cup r.logs
    /\ cur' = r.cur
    /\ pc' = IF r.abort THEN "done" ELSE "loop"
    /\ ret' = IF r.abort THEN "false" ELSE ret

\* lines 48-286: the loop takes the next attachment
ProcessAttachment ==
    /\ pc = "loop"
    /\ count < Len(d_attachments)
    /\ Iterate(LoopBody(count + 1))
    /\ unfailed' = InStep(unfailed, count + 1, daterangelist, "none")
    /\ undated' = InStep(undated, count + 1, <<>>, faults[count + 1])
    /\ UNCHANGED << d_database, d_attachments, daterangelist, threads, rootOk,
                    faults >>

\* lines 287-288: the loop is over
Finish ==
    /\ pc = "loop"
    /\ count = Len(d_attachments)
    /\ pc' = "done" /\ ret' = "true"
    /\ UNCHANGED << d_database, d_attachments, daterangelist, threads, rootOk,
                    faults, count, conversations, fs, usedNames, cleared, log, cur,
                    unfailed, undated >>

Next == SchemaCheckFails \/ PrepareFails \/ Setup \/ ProcessAttachment \/ Finish

----------------------------------------------------------------------------
(* The runs.  A run is a database, the attachments, the two filters, and   *)
(* what the file system does; Init draws it from four families.            *)

FullColumns == { "date_received", "type", "thread_id", "thread._id", "chatpartner" }

\* the row of a database without the message tables: part's columns only
MinimalRow ==
    [ ct |-> "image/png", file_name |-> <<>>, display_order |-> 0,
      date_received |-> 0, type |-> 0, thread_id |-> 0, chatpartner |-> <<>>,
      nulls |-> FullColumns \cup { "file_name" } ]

\* a row of a message in thread tid with chat partner cp
ConvRow(tid, cp, type) ==
    [ MinimalRow EXCEPT !.thread_id = tid, !.chatpartner = cp, !.type = type,
                        !.nulls = { "file_name", "date_received" } ]

Dated(row, date) ==
    [ row EXCEPT !.date_received = date, !.nulls = @ \ { "date_received" } ]

Named(row, name) == [ row EXCEPT !.file_name = name, !.nulls = @ \ { "file_name" } ]

\* a message whose thread row is gone: the thread id is there, no name
DanglingRow(tid, type) ==
    [ MinimalRow EXCEPT !.thread_id = tid, !.type = type,
                        !.nulls = { "file_name", "date_received", "thread._id",
                                    "chatpartner" } ]

Frames(n) == [ i \in 1..n |-> [ rowId |-> i, attachmentId |-> 1000 ] ]

NoFaults(n) == [ i \in 1..n |-> "none" ]

\* at most one failing operation in the run
OneFault(n, kinds) ==
    { NoFaults(n) } \cup { [ NoFaults(n) EXCEPT ![j] = k ] : j \in 1..n, k \in kinds }

Run(full, rows, drl, ths, flt) ==
    [ db |-> [ part |-> TRUE, full |-> full, rows |-> rows ],
      atts |-> Frames(Len(rows)), drl |-> drl, threads |-> ths, rootOk |-> TRUE,
      faults |-> flt ]

DateLists == UNION { [ 1..n -> DateStrings ] : n \in 0..(2 * MaxPairs) }

\* the state dumpMedia starts in on run r
Start(r) ==
    /\ d_database = r.db
    /\ d_attachments = r.atts
    /\ daterangelist = r.drl
    /\ threads = r.threads
    /\ rootOk = r.rootOk
    /\ faults = r.faults
    /\ pc = "start"
    /\ count = 0
    /\ ret = "none"
    /\ conversations = [ first |-> <<>>, second |-> <<>> ]
    /\ fs = [ dirs |-> {}, files |-> {} ]
    /\ usedNames = {}
    /\ cleared = [ i \in 1..Len(r.atts) |-> FALSE ]
    /\ log = {}
    /\ cur = NoLocals
    /\ unfailed = NoRun
    /\ undated = NoRun

\* threads and chat-partner names in every order, no filter
RegistryRows ==
    { << ConvRow(tid, cp, 23) >> :
         tid \in 1..3, cp \in { << "/" >>, << "A" >>, << "A", "(2)" >> } }

RegistryRuns ==
    \E n \in 0..MaxAttach :
      \E rows \in [ 1..n -> RegistryRows ], flt \in OneFault(n, { "mkdir1" }) :
        Start(Run(TRUE, rows, <<>>, <<>>, flt))

\* one attachment under every date-range list
DateValues == { 999, 1000, 1500, 1501, 1999, 2000 }

DateRows ==
    { <<>>, << ConvRow(1, << "A" >>, 23) >> }
    \cup { << Dated(ConvRow(1, << "A" >>, 23), d) >> : d \in DateValues }

DateRuns ==
    \E drl \in DateLists :
      \/ \E rows \in DateRows : Start(Run(TRUE, << rows >>, drl, <<>>, NoFaults(1)))
      \/ \E rows \in { <<>>, << MinimalRow >> } :
            Start(Run(FALSE, << rows >>, drl, <<>>, NoFaults(1)))

\* thread allow-lists against rows of several threads, and the row count
FilterRows ==
    { <<>>,
      << Dated(ConvRow(1, << "A" >>, 23), 1000) >>,
      << Dated(ConvRow(3, << "A" >>, 20), 2000) >>,
      << Dated(DanglingRow(2, 20), 1000) >>,
      << Dated([ MinimalRow EXCEPT !.nulls = @ \ { "type" } ], 1000) >>,
      << Dated(ConvRow(1, << "A" >>, 23), 1000),
         Dated(ConvRow(1, << "A" >>, 23), 1000) >> }

MinimalRows == { <<>>, << MinimalRow >>, << MinimalRow, MinimalRow >> }

FilterLists == { <<>>, << "garbage" >>, << "dt1", "dt1" >>, << "garbage", "garbage" >> }

FilterRuns ==
    \E n \in 0..(MaxAttach - 1) :
      \E drl \in FilterLists, ths \in { <<>>, << 1 >>, << 1, 2 >> } :
        \/ \E rows \in [ 1..n -> FilterRows ] :
              Start(Run(TRUE, rows, drl, ths, NoFaults(n)))
        \/ \E rows \in [ 1..n -> MinimalRows ] :
              Start(Run(FALSE, rows, drl, ths, NoFaults(n)))

\* file names that collide, target directories of every kind, and faults
FileRows ==
    { << Named(ConvRow(1, << "A" >>, 23), << "a", ".", "png" >>) >>,
      << Named(ConvRow(1, << "A" >>, 23), << "a", " (", "2", ")", ".", "png" >>) >>,
      << ConvRow(1, << "A" >>, 20) >>,
      << Named(MinimalRow, << "a", ".", "png" >>) >>,
      << Named(MinimalRow, << "A" >>) >>,
      << [ Dated(Named(MinimalRow, << "/" >>), 2000) EXCEPT
             !.ct = "application/x", !.display_order = 1 ] >> }

FileRuns ==
    \E n \in 0..(MaxAttach - 1) :
      \E rows \in [ 1..n -> FileRows ], flt \in OneFault(n, IoFaults \ { "none" }) :
        Start(Run(TRUE, rows, <<>>, <<>>, flt))

\* the run ends before the loop
SetupRuns ==
    \E full \in BOOLEAN, part \in BOOLEAN, ok \in BOOLEAN :
        Start([ Run(full, << << MinimalRow >> >>, <<>>, <<>>, NoFaults(1)) EXCEPT
                  !.db.part = part, !.rootOk = ok ])

Init == RegistryRuns \/ DateRuns \/ FilterRuns \/ FileRuns \/ SetupRuns

Spec == Init /\ [][Next]_vars

----------------------------------------------------------------------------
(* Properties *)

\* the joined rows and the one row of the attachment of the last iteration
CurRows == d_database.rows[cur.att]
CurRow  == CurRows[1]

\* the last iteration found exactly one row and went on with it
RowFound == cur.att > 0 /\ cur.results = 1 /\ cur.stage \notin { "exec", "deselected", "rows" }

IsPrefix(p, s) == Len(p) <= Len(s) /\ SubSeq(s, 1, Len(p)) = p

\* the registry holds a thread id once and a directory name once
RegistryOneToOne ==
    /\ Len(conversations.first) = Len(conversations.second)
    /\ \A i, j \in 1..Len(conversations.first) :
          i # j => /\ conversations.first[i] # conversations.first[j]
                   /\ conversations.second[i] # conversations.second[j]

\* a row sent to a conversation directory goes to the one of its thread
RowUsesRegisteredName ==
    RowFound /\ cur.idx_of_thread # -1 =>
        /\ cur.idx_of_thread + 1 \in 1..Len(conversations.second)
        /\ conversations.first[cur.idx_of_thread + 1] = cur.thread_id
        /\ cur.stage # "mkdir" =>
              IsPrefix(dir \o << "/" >> \o conversations.second[cur.idx_of_thread + 1]
                           \o << "/" >>, cur.targetdir)

\* a step keeps every entry of the registry as it is
RegistryKept ==
    /\ Len(conversations'.first) >= Len(conversations.first)
    /\ \A i \in 1..Len(conversations.first) :
          /\ conversations'.first[i] = conversations.first[i]
          /\ conversations'.second[i] = conversations.second[i]

\* C1: whatever rows were processed, each thread id of the registry has one
\* directory name, no two thread ids have the same name, an entry never
\* changes once it is there, and a row of a registered thread is sent to the
\* thread's first name whatever chat-partner name the row carries.
C1_RegistryIsStableAndOneToOne ==
    [](RegistryOneToOne /\ RowUsesRegisteredName) /\ [][RegistryKept]_vars

\* C1 witness: two threads registered, the second under a marked name, and
\* a third row of the first thread arrives under another chat-partner name.
C1_Witness ==
    /\ count = 3 /\ RowFound
    /\ Len(conversations.first) = 2
    /\ conversations.second[2] = << "A", "(2)" >>
    /\ cur.thread_id = conversations.first[1]
    /\ ChatPartner(CurRow) # conversations.second[1]
    /\ cur.stage = "exported"

\* a pair whose bounds both parse and are in order, and its range with the
\* end rounded up where the parse of the end asks for it
PairValid(pair) ==
    /\ dateToMSecsSinceEpoch(pair[1]).ms # -1
    /\ dateToMSecsSinceEpoch(pair[2]).ms # -1
    /\ dateToMSecsSinceEpoch(pair[1]).ms <= dateToMSecsSinceEpoch(pair[2]).ms

PairRange(pair) ==
    [ tok |-> "date_received BETWEEN",
      lo  |-> dateToMSecsSinceEpoch(pair[1]).ms,
      hi  |-> dateToMSecsSinceEpoch(pair[2]).ms
              + (IF dateToMSecsSinceEpoch(pair[2]).needrounding THEN 999 ELSE 0) ]

\* the pairs of an even-length list, in order
PairsOf(drl) == [ i \in 1..(Len(drl) \div 2) |-> << drl[2 * i - 1], drl[2 * i] >> ]

RECURSIVE OrJoin(_)
OrJoin(pairs) ==
    IF Len(pairs) = 1 THEN << PairRange(pairs[1]) >>
    ELSE << PairRange(pairs[1]), Tok(" OR ") >> \o OrJoin(Tail(pairs))

\* " AND (" range " OR " range ... ")" of the valid pairs, nothing when none
ClosedOr(pairs) ==
    IF pairs = <<>> THEN <<>>
    ELSE << Tok(" AND (") >> \o OrJoin(pairs) \o << Tok(")") >>

\* what the statement of the last iteration has after the thread filter
DatePart(q) == SubSeq(q.where, Len(ThreadClause(threads)) + 1, Len(q.where))

\* C2: with an even-length date-range list, the date filter of the statement
\* is the closed, parenthesised OR of the ranges of exactly the valid pairs,
\* wherever the dropped pairs sit, and where the projection has the tables
\* the lookup is executed and the run goes on.
C2_DroppedPairLeavesClosedClause ==
    cur.att > 0 /\ Len(daterangelist) % 2 = 0 =>
        /\ DatePart(cur.query) = ClosedOr(SelectSeq(PairsOf(daterangelist), PairValid))
        /\ d_database.full => cur.stage # "exec" /\ ret # "false"

\* C3: in every combination of projection, thread allow-list and date
\* filter, each table a filter names is one the projection selects from or
\* joins, the lookup is not what aborts the run, and a date filter is there
\* in full mode only.
C3_FiltersNameTablesOfTheProjection ==
    cur.att > 0 =>
        /\ FilterTables(cur.query.where) \subseteq cur.query.from
        /\ DateTerms(cur.query.where) # {} => cur.query.select = "full"

\* the messages logged for attachment i
Logged(i, kind) == \E m \in log : m.att = i /\ m.msg = kind

SkipMessages ==
    { "Unexpected number of results", "Failed to create directory",
      "getting unique filename", "Failed to open file for writing",
      "Failed to write data to file" }

\* C4 as stated: the run returns false exactly when prepareOutputDirectory
\* failed or the lookup could not be executed, and true in every other run.
C4_FalseOnlyOnRootOrLookup ==
    pc = "done" =>
        /\ ret \in { "true", "false" }
        /\ ret = "false" <=> (d_database.part /\ ~rootOk) \/ cur.stage = "exec"

\* C4 amended: the run returns false exactly when the part table or its
\* display_order column is missing, prepareOutputDirectory failed, or the
\* lookup could not be executed; in every other run, whatever attachments
\* were skipped, it returns true.
C4_FalseOnlyOnFatalCondition ==
    pc = "done" =>
        /\ ret \in { "true", "false" }
        /\ ret = "false" <=> ~d_database.part \/ ~rootOk \/ cur.stage = "exec"

\* C4 witness: a run that skipped an attachment on a failed write and
\* returned true.
C4_Witness ==
    /\ pc = "done" /\ ret = "true"
    /\ \E i \in 1..count : Logged(i, "Failed to write data to file")

\* the filters that narrow the lookup of the last iteration
FilterActive == threads # <<>> \/ DateTerms(cur.query.where) # {}

FileOf(i) == { f \in fs.files : f.att = i }

\* C5: the row count decides: one row goes on to export; no row under an
\* active filter is skipped without the row-count error; no row without an
\* active filter, or more than one row, logs the error and skips; a skipped
\* attachment leaves no file and the loop goes on.
C5_RowCountDecides ==
    cur.att > 0 /\ cur.stage # "exec" =>
        LET n == Len(ExecResults(cur.query, CurRows))
        IN  /\ n = 1 => cur.stage \notin { "deselected", "rows" }
            /\ n = 0 /\ FilterActive =>
                  /\ cur.stage = "deselected"
                  /\ ~Logged(cur.att, "Unexpected number of results")
            /\ (n = 0 /\ ~FilterActive) \/ n > 1 =>
                  /\ cur.stage = "rows"
                  /\ Logged(cur.att, "Unexpected number of results")
            /\ n # 1 => FileOf(cur.att) = {} /\ ret # "false"

\* C6: an attachment for which the file was opened, or its opening was
\* tried, has had clearData called when the loop moves on.
C6_PayloadReleasedAfterWriteStage ==
    cur.att > 0 /\ cur.ops # <<>> => cleared[cur.att]

\* no file of the run was opened again by a later attachment
NoFileReplaced == \A f \in fs.files : f.prev = {}

\* two names that differ only in the group " (N)" before the extension
SameButGroup(a, b) ==
    /\ a # b
    /\ StripGroup(Stem(a)) = StripGroup(Stem(b))
    /\ Ext(a) = Ext(b)

\* C7: no two attachments of a run are written to the same path: no file is
\* opened a second time, and of two attachments with the same target
\* directory and the same candidate name the later one is written under a
\* name that differs from the earlier one only by its " (N)" group.
C7_NoTwoAttachmentsShareAPath ==
    /\ NoFileReplaced
    /\ \A f, g \in fs.files :
          f.att < g.att /\ f.dir = g.dir /\ f.candidate = g.candidate =>
              SameButGroup(f.name, g.name) /\ HasGroup(Stem(g.name))

\* C7 witness: three attachments with one candidate name written to one
\* directory.
C7_Witness ==
    \E f, g, h \in fs.files :
        /\ f.att < g.att /\ g.att < h.att
        /\ f.dir = g.dir /\ g.dir = h.dir
        /\ f.candidate = g.candidate /\ g.candidate = h.candidate
        /\ f.data /\ g.data /\ h.data

\* the range terms of the statement of the last iteration
CurTerms == DateTerms(cur.query.where)

\* C8: the statement has one range per valid pair, from the start as parsed
\* to the end as parsed plus 999 where the end's parse flagged rounding, and
\* none for a pair that fails to parse or whose unrounded end is before its
\* start; a row is admitted exactly when its date_received lies in a range.
C8_RangeBoundsAndRounding ==
    cur.att > 0 =>
        /\ Len(daterangelist) % 2 = 0 =>
              CurTerms = { PairRange(PairsOf(daterangelist)[k]) :
                             k \in { j \in 1..(Len(daterangelist) \div 2) :
                                       PairValid(PairsOf(daterangelist)[j]) } }
        /\ Len(daterangelist) % 2 = 1 => CurTerms = {}
        /\ cur.stage # "exec" /\ threads = <<>> /\ cur.rows = 1 /\ CurTerms # {} =>
              (cur.stage # "deselected" <=>
                  /\ ~IsNull(CurRow, "date_received")
                  /\ \E t \in CurTerms : /\ t.lo <= CurRow.date_received
                                         /\ CurRow.date_received <= t.hi)

\* C8 witness: a row received 999 ms after a rounded end bound is admitted
\* by a statement with a single range.
C8_Witness ==
    /\ cur.att > 0 /\ cur.stage = "exported" /\ cur.rows = 1
    /\ daterangelist = << "ms1500", "dt1" >> \o << "dt1", "dt1" >>
    /\ CurTerms = { [ tok |-> "date_received BETWEEN", lo |-> 1000, hi |-> 1999 ] }
    /\ CurRow.date_received = 1999

\* a run in which no file operation fails and every attachment has one row
QuietRun ==
    /\ \A i \in 1..Len(faults) : faults[i] = "none"
    /\ \A i \in 1..Len(d_attachments) : Len(d_database.rows[i]) = 1
    /\ cur.stage \notin { "mkdir", "unique", "open", "write" }

\* the message of the row is in a thread that exists and is in the list
InAllowList(row) ==
    /\ ~IsNull(row, "thread_id") /\ ~IsNull(row, "thread._id")
    /\ row.thread_id \in Range(threads)

\* C9: in a run without failures where every attachment has one row and the
\* date-range list is empty, the run is not aborted; with an empty thread
\* allow-list every attachment is exported; with a non-empty one exactly
\* the attachments of its threads are exported and every other attachment
\* is skipped without an error message.
C9_AllowListSelectsTheExports ==
    cur.att > 0 /\ QuietRun /\ daterangelist = <<>> =>
        /\ ret # "false"
        /\ threads = <<>> => cur.stage = "exported"
        /\ threads # <<>> =>
              /\ cur.stage = "exported" <=> InAllowList(CurRow)
              /\ ~InAllowList(CurRow) =>
                    /\ cur.stage = "deselected"
                    /\ \A k \in SkipMessages : ~Logged(cur.att, k)

\* the row has a thread id, a chat-partner name and a message-type flag
KnownConversation ==
    d_database.full /\ cur.nulls \cap { "thread_id", "chatpartner", "type" } = {}

\* the directory name the registry has for thread tid
NameOf(tid) == conversations.second[findIdxOf(conversations.first, tid) + 1]

\* where the attachment of the last iteration is to be written
ExpectedDir ==
    IF KnownConversation
    THEN dir \o << "/" >> \o NameOf(cur.thread_id) \o << "/" >>
             \o << IF isOutgoing(cur.type) THEN "sent" ELSE "received" >>
    ELSE dir

\* C10: an exported attachment is written below <root>/<name>/sent when the
\* run is in full mode, thread id, chat-partner name and type flag are not
\* null and the flag is outgoing, below <root>/<name>/received when the flag
\* is not outgoing, and in <root> in every other case; in that case the
\* step leaves the registry as it was.
C10_TargetDirectory ==
    /\ [](cur.stage = "exported" =>
            /\ cur.targetdir = ExpectedDir
            /\ \E f \in FileOf(cur.att) :
                  f.path = ExpectedDir \o << "/" >> \o cur.filename)
    /\ [][cur'.att # cur.att /\ RowFound' /\ ~KnownConversation'
             => conversations' = conversations]_vars

\* C10 witness: an attachment of an incoming message is exported after one
\* that went to the root directory.
C10_Witness ==
    /\ cur.stage = "exported" /\ KnownConversation /\ ~isOutgoing(cur.type)
    /\ cur.targetdir = << "root", "/", "A", "/", "received" >>
    /\ \E f \in fs.files : f.dir = dir /\ f.att < cur.att

\* the effective timestamp of the attachment of the last iteration
EffectiveTimestamp ==
    IF d_database.full /\ "date_received" \notin CurRow.nulls
    THEN CurRow.date_received
    ELSE d_attachments[cur.att].attachmentId

\* the name built from the timestamp, the display order and the mime type
StampedName ==
    << "signal-", toString(EffectiveTimestamp \div 1000) >>
    \o (IF CurRow.display_order = 0 THEN <<>>
        ELSE << "_", toString(CurRow.display_order) >>)
    \o << "." >>
    \o (IF getExtension(CurRow.ct) = <<>> THEN << "attach" >>
        ELSE getExtension(CurRow.ct))

\* C11: the candidate file name is the sanitized on-record name when that is
\* not null and not empty after sanitizing; otherwise it is the stem of the
\* effective timestamp (date_received in full mode when not null, else the
\* attachment's id), "_<order>" exactly when the display order is not 0, "."
\* and the extension of the mime type or "attach"; and the modification
\* time set on the exported file is that same timestamp.
C11_CandidateNameAndTimestamp ==
    RowFound =>
        /\ cur.candidate =
              IF "file_name" \notin CurRow.nulls /\ sanitizeFilename(CurRow.file_name) # <<>>
              THEN sanitizeFilename(CurRow.file_name)
              ELSE StampedName
        /\ cur.datum = EffectiveTimestamp
        /\ cur.stage = "exported" /\ faults[cur.att] # "stamp" =>
              /\ FileOf(cur.att) # {}
              /\ \A f \in FileOf(cur.att) : f.mtime = EffectiveTimestamp

\* C11 witness: a file whose on-record name is empty after sanitizing, with a
\* known date, display order 1 and an unknown mime type, is exported under
\* the name of its date.
C11_Witness ==
    /\ RowFound /\ cur.stage = "exported"
    /\ "file_name" \notin CurRow.nulls /\ "date_received" \notin CurRow.nulls
    /\ cur.filename = << "signal-", "2", "_", "1", ".", "attach" >>
    /\ \E f \in FileOf(cur.att) : f.mtime = 2000 /\ f.mtime # d_attachments[cur.att].attachmentId

\* base followed by k markers
RECURSIVE Marked(_, _)
Marked(base, k) == IF k = 0 THEN base ELSE Marked(base, k - 1) \o << "(2)" >>

\* the step registers a thread
Registers == Len(conversations'.second) = Len(conversations.second) + 1

\* the name the step registered, and the base name of the row it processed
NewName == conversations'.second[Len(conversations'.second)]
BaseName == ChatPartner(d_database.rows[cur'.att][1])

\* every file below a conversation folder is of an attachment of the thread
\* the folder is registered for
FolderHoldsOwnThread ==
    \A f \in fs.files : \A i \in 1..Len(conversations.second) :
        IsPrefix(dir \o << "/" >> \o conversations.second[i] \o << "/" >>, f.path) =>
            /\ HasConversation(d_database, d_database.rows[f.att][1])
            /\ d_database.rows[f.att][1].thread_id = conversations.first[i]

\* C12: a thread is registered under its base name (the sanitized
\* chat-partner name, or "Contact <threadId>" when that is empty) followed by
\* the smallest number k >= 0 of "(2)" markers for which no entry owns the
\* name; k is at most the number of entries there were; and a conversation
\* folder holds attachments of its own thread only.
C12_SmallestMarkerCount ==
    /\ [][Registers =>
             \E k \in 0..Len(conversations.second) :
                 /\ NewName = Marked(BaseName, k)
                 /\ NewName \notin Range(conversations.second)
                 /\ \A j \in 0..(k - 1) :
                       Marked(BaseName, j) \in Range(conversations.second)]_vars
    /\ []FolderHoldsOwnThread

\* C12 witness: three threads named "A" have the folders "A", "A(2)" and
\* "A(2)(2)", each with a file of its own thread.
C12_Witness ==
    /\ conversations.second = << << "A" >>, << "A", "(2)" >>, << "A", "(2)", "(2)" >> >>
    /\ \A i \in 1..3 :
          /\ ChatPartner(d_database.rows[i][1]) = << "A" >>
          /\ \E f \in FileOf(i) :
                IsPrefix(dir \o << "/" >> \o conversations.second[i] \o << "/" >>, f.path)

\* the positions of an operation among those of the last iteration
At(op) == { k \in 1..Len(cur.ops) : cur.ops[k] = op }

StampOps == { "setFileTimeStamp", "setFileTimeStamp failed" }

\* C13: for an attachment whose write succeeded, the payload was written in
\* one write, then the stream was closed, then the modification time was set
\* to the effective timestamp, and nothing was closed after that; when the
\* update of the time fails the written file stays, the attachment is not
\* logged as skipped and the run is not aborted.
C13_WriteCloseThenTimestamp ==
    cur.stage = "exported" =>
        /\ Cardinality(At("write")) = 1 /\ Cardinality(At("close")) = 1
        /\ cur.ops[Len(cur.ops)] \in StampOps
        /\ \A w \in At("write"), c \in At("close") : w < c /\ c < Len(cur.ops)
        /\ \A k \in 1..(Len(cur.ops) - 1) : cur.ops[k] \notin StampOps
        /\ \E f \in FileOf(cur.att) :
              /\ f.data
              /\ faults[cur.att] # "stamp" => f.mtime = cur.datum
        /\ \A k \in SkipMessages : ~Logged(cur.att, k)
        /\ ret # "false"

\* C13 witness: the run returned true with the file of an attachment whose
\* timestamp update failed and the file of a later one that has its time.
C13_Witness ==
    /\ pc = "done" /\ ret = "true" /\ count = 2
    /\ faults[1] = "stamp"
    /\ \E f \in FileOf(1) : f.data /\ f.mtime = -1
    /\ cur.ops = << "open", "write", "close", "clearData", "setFileTimeStamp" >>
    /\ \E g \in FileOf(2) : g.data /\ g.mtime = cur.datum

\* two iterations with the same outcome, but for the " (N)" group of the name
SameOutcome(a, b) ==
    /\ a.stage = b.stage
    /\ a.targetdir = b.targetdir
    /\ a.candidate = b.candidate
    /\ a.filename = b.filename \/ SameButGroup(a.filename, b.filename)

\* the stages at which an attachment is skipped on a failure of its own
FailedStages == { "rows", "mkdir", "unique", "open", "write" }

\* an attachment after which no file operation of its own failed has the
\* outcome it has in the run where no operation fails at all
LaterOutcomeKept ==
    cur.att > 0 /\ faults[cur.att] = "none" => SameOutcome(cur, unfailed.cur)

\* C14: unless the run is aborted, the loop takes the attachments one by
\* one in enumeration order and the run ends after the last one; a failure
\* at the row count, a directory, the unique name, the open or the write
\* skips that attachment only; and every later attachment has the outcome
\* it has in the run without the failure, but for the " (N)" group of its
\* name.
C14_FailuresAreIsolated ==
    /\ [][count' # count => count' = count + 1 /\ cur'.att = count']_vars
    /\ [](pc = "done" /\ ret = "true" => count = Len(d_attachments))
    /\ [](cur.stage \in FailedStages => ret # "false")
    /\ []LaterOutcomeKept

\* the counter of the first retry for candidate c, and the n-th name tried
FirstCounter(c) ==
    IF HasGroup(Stem(c)) THEN toNumber(Stem(c)[Len(Stem(c)) - 1]) + 1 ELSE 2

NthName(c, n) ==
    IF n = 0 THEN c
    ELSE StripGroup(Stem(c)) \o << " (", toString(FirstCounter(c) + n - 1), ")" >>
             \o Ext(c)

\* the step resolved a unique name and opened it
Resolves == count' # count /\ cur'.stage \in { "open", "write", "exported" }

PathIn(d, name) == d \o << "/" >> \o name

\* C15: the name a file is opened under is the first free one of: the
\* candidate, then stem without its trailing " (N)" group, " (", counter,
\* ")" and the extension, with the counter starting at N+1 (at 2 without a
\* group) and going up by one; so the names of one candidate differ in one
\* group only and no name carries two groups added by the run.
C15_FirstFreeNumberedName ==
    /\ [][Resolves =>
             \E n \in 0..(Cardinality(usedNames) + Cardinality(fs.dirs)) :
                 /\ cur'.filename = NthName(cur'.candidate, n)
                 /\ ~Taken(fs, usedNames, PathIn(cur'.targetdir, cur'.filename))
                 /\ \A j \in 0..(n - 1) :
                       Taken(fs, usedNames,
                             PathIn(cur'.targetdir, NthName(cur'.candidate, j)))]_vars
    /\ [](\A f \in fs.files :
             /\ StripGroup(Stem(f.name)) = StripGroup(Stem(f.candidate))
             /\ Ext(f.name) = Ext(f.candidate)
             /\ f.name # f.candidate => HasGroup(Stem(f.name)))

\* C15 witness: three attachments with one candidate name in one directory
\* are written as the name, the name with " (2)" and the name with " (3)".
C15_Witness ==
    \E f, g, h \in fs.files :
        /\ f.dir = g.dir /\ g.dir = h.dir
        /\ g.candidate = f.name /\ h.candidate = f.name
        /\ f.name = << "signal-", "1", ".", "png" >>
        /\ g.name = << "signal-", "1", " (", "2", ")", ".", "png" >>
        /\ h.name = << "signal-", "1", " (", "3", ")", ".", "png" >>

\* a step appends to the two lists of the registry or leaves them
RegistryAppendOnly ==
    /\ IsPrefix(conversations.first, conversations'.first)
    /\ IsPrefix(conversations.second, conversations'.second)

\* the last iteration was for a row of a conversation and was skipped on a
\* failed file operation
SkippedInConversation ==
    RowFound /\ KnownConversation /\ cur.stage \in { "mkdir", "unique", "open", "write" }

\* C16: the registry only grows: an entry is there from before its
\* directory is made, so it stays when the attachment is skipped on a failed
\* directory, unique name, open or write; a row of a registered thread reads
\* the thread's entry at an index within the lists, which have one length;
\* and no two threads have one name, whether or not the directories exist.
C16_RegistryNeverRolledBack ==
    /\ [][RegistryAppendOnly]_vars
    /\ [](/\ Len(conversations.first) = Len(conversations.second)
          /\ SkippedInConversation => cur.thread_id \in Range(conversations.first)
          /\ RowFound /\ KnownConversation =>
                /\ cur.idx_of_thread \in 0..(Len(conversations.second) - 1)
                /\ cur.idx_of_thread = findIdxOf(conversations.first, cur.thread_id)
          /\ \A i, j \in 1..Len(conversations.second) :
                conversations.second[i] = conversations.second[j] => i = j)

\* C16 witness: the directory of thread 1 could not be made, thread 2 with
\* the same chat-partner name was registered under the marked name, and a
\* later attachment of thread 1 is exported below the first name.
C16_Witness ==
    /\ count = 3 /\ cur.stage = "exported" /\ cur.thread_id = 1
    /\ Logged(1, "Failed to create directory")
    /\ conversations = [ first |-> << 1, 2 >>,
                         second |-> << << "A" >>, << "A", "(2)" >> >> ]
    /\ ChatPartner(d_database.rows[2][1]) = << "A" >>
    /\ cur.targetdir = << "root", "/", "A", "/", "sent" >>

\* the date-range list is not empty and gives no range: its length is odd,
\* or every pair fails to parse or has its end before its start
NoAppliedRange ==
    /\ daterangelist # <<>>
    /\ \/ Len(daterangelist) % 2 = 1
       \/ \A k \in 1..(Len(daterangelist) \div 2) : ~PairValid(PairsOf(daterangelist)[k])

\* the attachments written, each with its path
Exported(files) == { << f.att, f.path >> : f \in { g \in files : g.data } }

\* C17: under a date-range list that is not empty and gives no range, the
\* statement is the one built for an empty list, the run is not aborted,
\* and the attachments exported are those exported with an empty list and
\* the same thread allow-list.
C17_NoRangeIsNoDateFilter ==
    cur.att > 0 /\ NoAppliedRange =>
        /\ cur.query = BuildQuery(d_database, threads, <<>>)
        /\ ret # "false"
        /\ Exported(fs.files) = Exported(undated.fs.files)

====
